---- MODULE Spec2Model ----
(***************************************************************************)
(* Model of trust_me.py: the incremental Excel indexer (DatabaseManager)   *)
(* and the query path (MainWindow.start_query -> DatabaseManager.search).  *)
(*                                                                         *)
(* The SQLite store is a committed state `db` plus, per indexing thread,   *)
(* the uncommitted working copy of its open transaction.  Other            *)
(* connections (the query path) read `db` only.                            *)
(***************************************************************************)
EXTENDS Integers, Sequences, FiniteSets, TLC

\* ------------------------------------------------------------ bounds
NumPaths == 2          \* candidate documents under the root
MaxTime == 2           \* modification times are 1..MaxTime
MaxRuns == 2           \* folder selections (indexing runs) per behaviour

Paths == 1..NumPaths
Workers == {1, 2}      \* slots for IndexingThread objects
Health == {"ok", "corrupt", "badsheet"}

\* ------------------------------------------------------------ file names
\* Directory entries: the candidate documents, an Office lock file and a
\* file of another type.  A name is (lock-file marker, stem, extension).
LockEntry == NumPaths + 1
TextEntry == NumPaths + 2
Entries == 1..(NumPaths + 2)

FileName(e) ==
    IF e = LockEntry THEN [lock |-> TRUE, stem |-> 1, ext |-> "xlsx"]
    ELSE IF e = TextEntry THEN [lock |-> FALSE, stem |-> 1, ext |-> "txt"]
    ELSE [lock |-> FALSE, stem |-> e, ext |-> IF e % 2 = 1 THEN "xlsx" ELSE "xlsm"]

IsCandidateName(n) == n.ext \in {"xlsx", "xlsm"} /\ ~n.lock

\* ------------------------------------------------------------ cell values
Lower == <<"a", "b", "c", "d", "e">>
Upper == <<"A", "B", "C", "D", "E">>
DigitChar == <<"0", "1", "2", "3", "4", "5", "6", "7", "8", "9">>

TextVal(s) == [t |-> "text", s |-> s, n |-> 0]
NumVal(n) == [t |-> "num", s |-> <<>>, n |-> n]
NoneVal == [t |-> "none", s |-> <<>>, n |-> 0]

\* Python truthiness of a cell value: None, "" and 0 are falsy.
Truthy(v) ==
    CASE v.t = "none" -> FALSE
      [] v.t = "text" -> v.s # <<>>
      [] v.t = "num" -> v.n # 0

RECURSIVE Decimal(_)
Decimal(n) == IF n < 10 THEN <<DigitChar[n + 1]>>
              ELSE Decimal(n \div 10) \o <<DigitChar[(n % 10) + 1]>>

\* str(cell.value)
Str(v) ==
    CASE v.t = "text" -> v.s
      [] v.t = "num" -> Decimal(v.n)
      [] v.t = "none" -> <<"N", "o", "n", "e">>

\* The workbook stored at path p when its modification time is m.
Workbook(p, m) ==
    << [name |-> "S1",
        cells |-> << [coord |-> "A1", value |-> TextVal(<<Lower[p], Upper[m]>>)],
                     [coord |-> "B1", value |-> NumVal(0)] >>],
       [name |-> "S2",
        cells |-> << [coord |-> "A1", value |-> NumVal(m)],
                     [coord |-> "A2", value |-> NoneVal] >>] >>

\* ------------------------------------------------------------ timestamps
\* A datetime object, and what the sqlite3 module's default adapter binds for
\* it: its ISO text.  Columns are read back without detect_types, so a stored
\* timestamp comes back as that text (a str), not as a datetime.
Datetime(t) == [type |-> "datetime", v |-> t]
AdaptDatetime(d) == [type |-> "str", v |-> d.v]
ReadColumn(x) == x

\* Python's a < b: defined between two values of the same type only.
PyLess(a, b) ==
    IF a.type = b.type THEN (IF a.v < b.v THEN "True" ELSE "False")
    ELSE "TypeError"

\* ------------------------------------------------------------ the store
SetMax(S) == CHOOSE x \in S : \A y \in S : y <= x

\* Faulty variant: the new id taken from the number of rows in the table
NextRowIdByCount(rows) == Cardinality(rows) + 1

\* rowid of an INTEGER PRIMARY KEY column without AUTOINCREMENT
NextRowId(rows) == IF rows = {} THEN 1 ELSE SetMax({r.id : r \in rows}) + 1

EmptyStore == [files |-> {}, content |-> {}]

FileRows(d, path) == {f \in d.files : f.file_path = path}

\* Faulty variant: the DELETE without its WHERE clause
DeleteFilesAll(d, path) ==
    [d EXCEPT !.files = {}]

\* DELETE FROM files WHERE file_path = ?
DeleteFiles(d, path) ==
    [d EXCEPT !.files = {f \in @ : f.file_path # path}]

\* DELETE FROM content_index WHERE file_id IN
\*   (SELECT id FROM files WHERE file_path = ?)
DeleteContent(d, path) ==
    [d EXCEPT !.content =
        {c \in @ : c.file_id \notin {f.id : f \in FileRows(d, path)}}]

\* INSERT INTO files (file_path, last_modified, last_indexed) VALUES (?,?,?)
\* violates UNIQUE(file_path) when a row for the path is present
InsertViolatesUnique(d, path) == FileRows(d, path) # {}

InsertFile(d, path, modified, now) ==
    [d EXCEPT !.files = @ \cup
        {[id |-> NextRowId(d.files), file_path |-> path,
          last_modified |-> AdaptDatetime(modified),
          last_indexed |-> AdaptDatetime(now)]}]

\* executemany(INSERT INTO content_index ...) over content_values
InsertContent(d, values) ==
    LET base == NextRowId(d.content) - 1 IN
    [d EXCEPT !.content = @ \cup
        {[id |-> base + k, file_id |-> values[k][1], sheet_name |-> values[k][2],
          cell_coordinate |-> values[k][3], content |-> values[k][4]]
         : k \in 1..Len(values)}]

\* ------------------------------------------------------------ extraction
\* Number of cells of sheet number s that are read before reading it raises;
\* a healthy sheet is read to its end.
CellsRead(health, s, sheet) ==
    IF health = "badsheet" /\ s = 1 THEN 1 ELSE Len(sheet.cells)

SheetValues(fid, sheet, nread) ==
    LET read == SubSeq(sheet.cells, 1, nread)
        kept == SelectSeq(read, LAMBDA c : Truthy(c.value))
    IN [k \in 1..Len(kept) |->
           <<fid, sheet.name, kept[k].coord, Str(kept[k].value)>>]

RECURSIVE ContentValuesFrom(_, _, _, _)
ContentValuesFrom(fid, wb, health, s) ==
    IF s > Len(wb) THEN <<>>
    ELSE SheetValues(fid, wb[s], CellsRead(health, s, wb[s]))
         \o ContentValuesFrom(fid, wb, health, s + 1)

\* content_values after the loop over wb.sheetnames
ContentValues(fid, wb, health) == ContentValuesFrom(fid, wb, health, 1)

\* ------------------------------------------------------------ search
FoldCase(c) ==
    IF \E k \in 1..Len(Upper) : Upper[k] = c
    THEN Lower[CHOOSE k \in 1..Len(Upper) : Upper[k] = c]
    ELSE c

\* SQLite's LIKE: % matches any run of characters, _ any one character, and
\* ASCII letters match without regard to case.
RECURSIVE Like(_, _)
Like(pat, s) ==
    IF pat = <<>> THEN s = <<>>
    ELSE IF Head(pat) = "%"
         THEN Like(Tail(pat), s) \/ (s # <<>> /\ Like(pat, Tail(s)))
    ELSE IF s = <<>> THEN FALSE
    ELSE IF Head(pat) = "_" THEN Like(Tail(pat), Tail(s))
    ELSE FoldCase(Head(pat)) = FoldCase(Head(s)) /\ Like(Tail(pat), Tail(s))

\* f"%{query}%"
LikePattern(q) == <<"%">> \o q \o <<"%">>

\* content_index JOIN files ON ci.file_id = f.id WHERE ci.content LIKE ?
Matches(d, q) ==
    {c \in d.content : /\ \E f \in d.files : f.id = c.file_id
                       /\ Like(LikePattern(q), c.content)}

ResultRow(d, c) ==
    LET f == CHOOSE g \in d.files : g.id = c.file_id
    IN <<f.file_path, c.sheet_name, c.cell_coordinate, c.content>>

RECURSIVE RowsInIdOrder(_, _)
RowsInIdOrder(d, cs) ==
    IF cs = {} THEN <<>>
    ELSE LET c == CHOOSE x \in cs : \A y \in cs : x.id <= y.id
         IN <<ResultRow(d, c)>> \o RowsInIdOrder(d, cs \ {c})

\* DatabaseManager.search on a store whose query executes
SearchRows(d, q) == RowsInIdOrder(d, Matches(d, q))

\* ------------------------------------------------------------ change detection
\* Faulty variant: every candidate is taken to need indexing
NeedsUpdateAlways(d, path, modified) == "True"

\* DatabaseManager.needs_update on the store view d: "True", "False", or the
\* exception the comparison raises.
NeedsUpdate(d, path, modified) ==
    LET result == FileRows(d, path) IN
    IF result = {} THEN "True"
    ELSE PyLess(ReadColumn((CHOOSE f \in result : TRUE).last_modified), modified)

\* ------------------------------------------------------------ state
VARIABLES
    fs,        \* the root folder: per path, on disk?, mtime, health of the workbook
    db,        \* committed contents of file_index.db
    errorLog,  \* index_errors.log: one entry (the file path) per line
    thr,       \* per slot, the IndexingThread running update_index
    result,    \* the query path: the last query searched and the rows shown
    runs,      \* folder selections made so far
    searchConn \* the connection of the last search call: "none", "open", "closed"

vars == <<fs, db, errorLog, thr, result, runs, searchConn>>

IdleThread ==
    [pc |-> "idle", cands |-> <<>>, i |-> 0, mt |-> Datetime(0), now |-> Datetime(0),
     need |-> "none", tx |-> EmptyStore, fid |-> 0, reports |-> <<>>,
     atCall |-> EmptyStore, logMark |-> 0, selected |-> {}, loopErrs |-> {},
     fileErrs |-> {}, opened |-> {}, committed |-> {}, conn |-> "none"]

NoResult == [q |-> <<>>, rows |-> <<>>, raised |-> FALSE]

Init ==
    /\ fs \in [Paths -> [onDisk : {TRUE}, mtime : {1}, health : Health]]
    /\ db = EmptyStore
    /\ errorLog = <<>>
    /\ thr = [w \in Workers |-> IdleThread]
    /\ result = NoResult
    /\ runs = 0
    /\ searchConn = "none"

\* ------------------------------------------------------------ helpers
Cur(w) == thr[w].cands[thr[w].i]
Total(w) == Len(thr[w].cands)
Resting(w) == thr[w].pc \in {"idle", "done", "aborted"}
NoRunActive == \A v \in Workers : Resting(v)

OnDisk(e) == e \notin Paths \/ fs[e].onDisk

RECURSIVE WalkFrom(_)
WalkFrom(e) ==
    IF e > NumPaths + 2 THEN <<>>
    ELSE (IF OnDisk(e) /\ IsCandidateName(FileName(e)) THEN <<e>> ELSE <<>>)
         \o WalkFrom(e + 1)

\* excel_files after the os.walk loop
ScanFolder == WalkFrom(1)

\* Faulty variant: the percentage computed from i instead of i + 1
PercentOffByOne(k, total) == ((k - 1) * 100) \div total

\* int((i + 1) * 100 / total) for the 0-based index i = k - 1
Percent(k, total) == (k * 100) \div total

\* Faulty variant: the run ends after the last candidate without the final report
NextCandidateEndsRun(t) ==
    IF t.i < Len(t.cands)
    THEN [t EXCEPT !.i = @ + 1, !.pc = "check", !.tx = EmptyStore,
                   !.atCall = EmptyStore, !.fid = 0]
    ELSE [t EXCEPT !.pc = "done", !.tx = EmptyStore,
                   !.atCall = EmptyStore, !.fid = 0]

\* enumerate() moves on to the next candidate, or the loop ends
NextCandidate(t) ==
    IF t.i < Len(t.cands)
    THEN [t EXCEPT !.i = @ + 1, !.pc = "check", !.tx = EmptyStore,
                   !.atCall = EmptyStore, !.fid = 0]
    ELSE [t EXCEPT !.pc = "finish", !.tx = EmptyStore,
                   !.atCall = EmptyStore, !.fid = 0]

\* except Exception in update_index: the error is printed, the loop goes on
CaughtInLoop(t) ==
    NextCandidate([t EXCEPT !.loopErrs = @ \cup {t.cands[t.i]}])

\* Faulty variant: the log opened for writing instead of appending
LoggedInTruncating(log, path) == <<path>>

\* Faulty variant: a per-file error ends the loop over the candidates
CaughtInIndexFileAborts(t) ==
    [t EXCEPT !.fileErrs = @ \cup {t.cands[t.i]}, !.pc = "finish",
              !.tx = EmptyStore, !.atCall = EmptyStore, !.fid = 0]

\* except Exception in index_file: printed and appended to index_errors.log
\* (open(..., 'a')); index_file returns normally
LoggedIn(log, path) == Append(log, path)

CaughtInIndexFile(t) ==
    NextCandidate([t EXCEPT !.fileErrs = @ \cup {t.cands[t.i]}])

\* ------------------------------------------------------------ the folder
\* More folder selections can still be made, or a run is still going on.
Observed == runs < MaxRuns \/ ~NoRunActive

\* A document that is indexed in its present version is rewritten between
\* runs and gets a later mtime.
Modify(p) ==
    /\ NoRunActive
    /\ runs < MaxRuns
    /\ fs[p].onDisk
    /\ fs[p].mtime < MaxTime
    /\ \E f \in FileRows(db, p) : f.last_modified = AdaptDatetime(Datetime(fs[p].mtime))
    /\ fs' = [fs EXCEPT ![p].mtime = @ + 1]
    /\ UNCHANGED <<db, errorLog, thr, result, searchConn, runs>>

\* The document at p is removed from the folder: between runs, or during a
\* run ahead of the accesses that notice it (getmtime, load_workbook).
Remove(p) ==
    /\ runs < MaxRuns \/ \E w \in Workers : thr[w].pc \in {"check", "index"}
    /\ fs[p].onDisk
    /\ fs' = [fs EXCEPT ![p].onDisk = FALSE]
    /\ UNCHANGED <<db, errorLog, thr, result, searchConn, runs>>

\* ------------------------------------------------------------ an indexing run
\* open_folder_dialog with a folder chosen: a new IndexingThread is started,
\* whatever the previous one is doing; update_index scans the folder.
StartRun(w) ==
    /\ runs < MaxRuns
    /\ Resting(w)
    /\ \A v \in Workers : v < w => ~Resting(v)
    /\ LET cands == ScanFolder IN
       thr' = [thr EXCEPT ![w] =
                 [IdleThread EXCEPT !.pc = IF Len(cands) = 0 THEN "finish" ELSE "check",
                                    !.cands = cands,
                                    !.i = IF Len(cands) = 0 THEN 0 ELSE 1,
                                    !.now = Datetime(runs + 1),
                                    !.logMark = Len(errorLog),
                                    !.conn = "open"]]
    /\ runs' = runs + 1
    /\ UNCHANGED <<fs, db, errorLog, result, searchConn>>

\* Faulty variant: the failure to connect is swallowed and the run goes on to
\* its end
OpenFailedGoesOn(t) == [t EXCEPT !.pc = "finish"]

\* sqlite3.connect raises in get_connection: the exception is not caught in
\* update_index and ends IndexingThread.run
OpenFailed(t) == [t EXCEPT !.pc = "aborted"]

\* update_index when get_connection raises: the folder has been scanned, the
\* exception leaves update_index ahead of the loop and of its try block.
StartRunStoreDown(w) ==
    /\ runs < MaxRuns
    /\ NoRunActive
    /\ Resting(w)
    /\ \A v \in Workers : v < w => ~Resting(v)
    /\ thr' = [thr EXCEPT ![w] =
                 OpenFailed([IdleThread EXCEPT !.cands = ScanFolder,
                                               !.now = Datetime(runs + 1),
                                               !.logMark = Len(errorLog)])]
    /\ runs' = runs + 1
    /\ UNCHANGED <<fs, db, errorLog, result, searchConn>>

\* The user selects a folder only while no indexing run is active.
StartRunWhenIdle(w) == NoRunActive /\ StartRun(w)

\* file_modified_time = datetime.fromtimestamp(os.path.getmtime(file_path)),
\* OSError when the file has gone since the scan; then
\* if self.needs_update(conn, file_path, file_modified_time):
Check(w) ==
    /\ thr[w].pc = "check"
    /\ thr' = [thr EXCEPT ![w] =
                 IF ~fs[Cur(w)].onDisk
                 THEN CaughtInLoop([@ EXCEPT !.need = "OSError"])
                 ELSE LET mt == Datetime(fs[Cur(w)].mtime)
                          need == NeedsUpdate(db, Cur(w), mt)
                      IN CASE need = "True" ->
                                [@ EXCEPT !.mt = mt, !.need = need, !.pc = "index",
                                          !.selected = @ \cup {Cur(w)}]
                           [] need = "False" ->
                                NextCandidate([@ EXCEPT !.mt = mt, !.need = need])
                           [] OTHER ->
                                CaughtInLoop([@ EXCEPT !.mt = mt, !.need = need])]
    /\ UNCHANGED <<fs, db, errorLog, result, searchConn, runs>>

\* progress_callback(int((i + 1) * 100 / total), "正在索引: <name>")
Reported(t) ==
    [t EXCEPT !.reports = Append(@, [pct |-> Percent(t.i, Len(t.cands)),
                                     label |-> t.cands[t.i]])]

\* openpyxl.load_workbook succeeds
CanLoad(p) == fs[p].onDisk /\ fs[p].health # "corrupt"

\* The progress report, then index_file is entered and loads the workbook.
ReportAndOpen(w) ==
    /\ thr[w].pc = "index"
    /\ IF CanLoad(Cur(w))
       THEN /\ thr' = [thr EXCEPT ![w] =
                         [Reported(@) EXCEPT !.pc = "begin", !.atCall = db,
                                             !.opened = @ \cup {Cur(w)}]]
            /\ UNCHANGED errorLog
       ELSE /\ thr' = [thr EXCEPT ![w] = CaughtInIndexFile(Reported(@))]
            /\ errorLog' = LoggedIn(errorLog, Cur(w))
    /\ UNCHANGED <<fs, db, result, searchConn, runs>>

\* A writer holds the store's write lock until it commits or rolls back.
NoOtherWriter(w) ==
    \A v \in Workers \ {w} : thr[v].pc \notin {"extract", "commit"}

\* conn.rollback(); raise e; wb.close(); then index_file's outer handler
RolledBack(t) == CaughtInIndexFile(t)

\* BEGIN TRANSACTION, the two DELETE statements and INSERT INTO files on this
\* thread's connection; file_id = cursor.lastrowid
BeginTransaction(w) ==
    /\ thr[w].pc = "begin"
    /\ NoOtherWriter(w)
    /\ LET p == Cur(w)
           deleted == DeleteContent(DeleteFiles(db, p), p)
       IN IF InsertViolatesUnique(deleted, p)
          THEN /\ thr' = [thr EXCEPT ![w] = RolledBack(@)]
               /\ errorLog' = LoggedIn(errorLog, p)
          ELSE /\ thr' = [thr EXCEPT ![w] =
                            [@ EXCEPT !.tx = InsertFile(deleted, p, thr[w].mt, thr[w].now),
                                      !.fid = NextRowId(deleted.files),
                                      !.pc = "extract"]]
               /\ UNCHANGED errorLog
    /\ UNCHANGED <<fs, db, result, searchConn, runs>>

\* the loop over the sheets, then executemany
ExtractAndInsert(w) ==
    /\ thr[w].pc = "extract"
    /\ LET p == Cur(w)
           values == ContentValues(thr[w].fid, Workbook(p, fs[p].mtime), fs[p].health)
       IN thr' = [thr EXCEPT ![w] =
                    [@ EXCEPT !.tx = InsertContent(@, values), !.pc = "commit"]]
    /\ UNCHANGED <<fs, db, errorLog, result, searchConn, runs>>

\* Faulty variant: the commit applies the transaction's inserts but not its
\* deletes
CommitKeepsDeleted(d, tx) ==
    [files |-> d.files \cup tx.files, content |-> d.content \cup tx.content]

\* What conn.commit() makes the store's committed contents.
CommitTo(d, tx) == tx

\* conn.commit(); wb.close(); index_file returns
Commit(w) ==
    /\ thr[w].pc = "commit"
    /\ db' = CommitTo(db, thr[w].tx)
    /\ thr' = [thr EXCEPT ![w] =
                 NextCandidate([@ EXCEPT !.committed = @ \cup {Cur(w)}])]
    /\ UNCHANGED <<fs, errorLog, result, searchConn, runs>>

\* Faulty variant: the handler keeps the statements executed so far
RollbackKeepsWrites(d, tx) == tx

\* Faulty variant: the rollback undoes the content rows but not the files table
RollbackKeepsFileRecord(d, tx) == [files |-> tx.files, content |-> d.content]

\* What the store's committed contents are after conn.rollback().
RollbackTo(d, tx) == d

\* A statement of the transaction (BEGIN, a DELETE, the INSERTs, the commit)
\* raises a store error: rollback, wb.close(), the error is logged.
StoreFailure(w) ==
    /\ thr[w].pc \in {"begin", "extract", "commit"}
    /\ db' = RollbackTo(db, thr[w].tx)
    /\ thr' = [thr EXCEPT ![w] = RolledBack(@)]
    /\ errorLog' = LoggedIn(errorLog, Cur(w))
    /\ UNCHANGED <<fs, result, searchConn, runs>>

\* progress_callback(100, "索引完成"); conn.close(); finished.emit()
Finish(w) ==
    /\ thr[w].pc = "finish"
    /\ thr' = [thr EXCEPT ![w] =
                 [@ EXCEPT !.reports = Append(@, [pct |-> 100, label |-> 0]),
                           !.pc = "done", !.conn = "closed"]]
    /\ UNCHANGED <<fs, db, errorLog, result, searchConn, runs>>

\* ------------------------------------------------------------ the query path
\* Faulty variant: the handler passes on what the query would have returned
SearchIgnoresError(d, q, raises) == SearchRows(d, q)

\* DatabaseManager.search: the rows of the committed store, or [] when the
\* connection or the query raises sqlite3.Error
Search(d, q, raises) == IF raises THEN <<>> ELSE SearchRows(d, q)

\* Faulty variant: the query reads the uncommitted state of an open transaction
DirtyReadView ==
    IF \E w \in Workers : thr[w].pc \in {"extract", "commit"}
    THEN thr[CHOOSE w \in Workers : thr[w].pc \in {"extract", "commit"}].tx
    ELSE db

\* What a connection of its own reads: the committed contents of the store.
ReadView == db

\* what the user types into the query box
Typed == {<<>>, <<"a">>}

\* folder_label is empty until a folder has been selected
FolderChosen == runs > 0

\* The connection of a search call when search returns. None was made when
\* sqlite3.connect raised. "with conn" ends the transaction and does not
\* close the connection, and search never calls close(): the connection is
\* closed by then only if the collector has already reclaimed the object.
ConnAtReturn(connected, collected) ==
    IF ~connected THEN "none" ELSE IF collected THEN "closed" ELSE "open"

\* MainWindow.start_query: a warning and nothing else when the query or the
\* folder is empty, else the result view is cleared and filled with the rows
StartQuery(q) ==
    /\ Observed
    /\ IF q = <<>> \/ ~FolderChosen
       THEN UNCHANGED <<result, searchConn>>
       ELSE \E raises, connected, collected \in BOOLEAN :
               /\ ~connected => raises
               /\ result' = [q |-> q, rows |-> Search(ReadView, q, raises),
                             raised |-> raises]
               /\ searchConn' = ConnAtReturn(connected, collected)
    /\ UNCHANGED <<fs, db, errorLog, thr, runs>>

\* The collector reclaims the connection object of a search that has returned.
CollectConnection ==
    /\ searchConn = "open"
    /\ searchConn' = "closed"
    /\ UNCHANGED <<fs, db, errorLog, thr, result, runs>>

\* ------------------------------------------------------------ specifications
\* the indexing engine and the folder it indexes
Index ==
    \/ \E w \in Workers : StartRunWhenIdle(w)
    \/ \E w \in Workers : Check(w)
    \/ \E w \in Workers : ReportAndOpen(w)
    \/ \E w \in Workers : BeginTransaction(w)
    \/ \E w \in Workers : ExtractAndInsert(w)
    \/ \E w \in Workers : Commit(w)
    \/ \E w \in Workers : StoreFailure(w)
    \/ \E w \in Workers : Finish(w)

Next ==
    \/ \E p \in Paths : Modify(p)
    \/ \E p \in Paths : Remove(p)
    \/ Index

Spec == Init /\ [][Next]_vars

\* the indexing engine over a folder that stays as it is, with the query path
\* running beside it
NextQuery ==
    \/ Index
    \/ \E q \in Typed : StartQuery(q)
    \/ CollectConnection

SpecQuery == Init /\ [][NextQuery]_vars

\* a step of the thread in slot w once it has been started
RunStep(w) ==
    \/ Check(w)
    \/ ReportAndOpen(w)
    \/ BeginTransaction(w)
    \/ ExtractAndInsert(w)
    \/ Commit(w)
    \/ StoreFailure(w)
    \/ Finish(w)

\* the indexing engine over a folder that files leave but in which none is
\* rewritten
NextLive ==
    \/ \E p \in Paths : Remove(p)
    \/ Index

\* QThread.start(): a started thread is scheduled until run() returns
SpecLive == Init /\ [][NextLive]_vars /\ WF_vars(\E w \in Workers : RunStep(w))

\* self.indexing_thread is bound to the new IndexingThread while the previous
\* one is unfinished: when the last reference to its QThread goes, Qt ends
\* the process ("QThread: Destroyed while thread is still running"); the open
\* transaction is not committed.
DestroyRunningThread ==
    /\ runs < MaxRuns
    /\ ~NoRunActive
    /\ thr' = [w \in Workers |-> [thr[w] EXCEPT !.pc = "killed"]]
    /\ UNCHANGED <<fs, db, errorLog, result, searchConn, runs>>

\* the indexing engine when a folder is selected whatever the previous
\* IndexingThread is doing
NextOverlap ==
    \/ \E w \in Workers : StartRun(w)
    \/ DestroyRunningThread
    \/ \E w \in Workers : RunStep(w)

\* a folder in which only the first document may be damaged
InitOverlap ==
    /\ Init
    /\ \A p \in Paths \ {1} : fs[p].health = "ok"

SpecOverlap == InitOverlap /\ [][NextOverlap]_vars

\* the indexing engine with a store that cannot always be opened
NextStoreDown ==
    \/ \E w \in Workers : StartRunStoreDown(w)
    \/ Index

SpecStoreDown == Init /\ [][NextStoreDown]_vars

\* ------------------------------------------------------------ vocabulary of the properties
Range(f) == {f[k] : k \in DOMAIN f}

IsPrefix(a, b) == Len(a) <= Len(b) /\ SubSeq(b, 1, Len(a)) = a

IsSubstring(q, c) ==
    \E k \in 0..(Len(c) - Len(q)) : SubSeq(c, k + 1, k + Len(q)) = q

HasRecord(d, p) == FileRows(d, p) # {}

\* the rows search returns for path p, for the query that matches every row
PathRows(d, p) == SelectSeq(SearchRows(d, <<>>), LAMBDA r : r[1] = p)

\* the entries of one extraction pass over the document at p as it was at mtime m
ExtractionRows(p, m) ==
    LET v == ContentValues(0, Workbook(p, m), fs[p].health)
    IN [k \in 1..Len(v) |-> <<p, v[k][2], v[k][3], v[k][4]>>]

Running(w) == ~Resting(w)
InTransaction(w) == thr[w].pc \in {"extract", "commit"}
FinishStep(w) == thr[w].pc = "finish" /\ thr'[w].pc = "done"

\* ------------------------------------------------------------ C1
\* C1 (as claimed): when a run completes, every candidate that has a FileRecord,
\* can be loaded and met no index_file failure in the run has, as its rows in
\* the store and in search, exactly the entries of an extraction of its current
\* version: no row of an earlier version remains and none is duplicated.
C1_ReplacementCorrectness ==
    [][\A w \in Workers : FinishStep(w) =>
          \A p \in Range(thr[w].cands) :
             (HasRecord(db, p) /\ CanLoad(p) /\ p \notin thr[w].fileErrs)
                => PathRows(db, p) = ExtractionRows(p, fs[p].mtime)]_vars

\* ------------------------------------------------------------ C2
\* C2: whenever a statement of index_file's transaction fails, the committed
\* contents of both tables after the rollback are exactly what they were when
\* index_file was called, for every path.
C2_AllOrNothing ==
    [][\A w \in Workers :
          (thr[w].pc \in {"begin", "extract", "commit"}
             /\ thr'[w].fileErrs # thr[w].fileErrs)
          => db' = thr[w].atCall]_vars

\* a transaction that had written a FileRecord was rolled back while the store
\* held committed rows of another path
C2_Witness ==
    \E w \in Workers : \E p \in thr[w].fileErrs \cap thr[w].opened :
        /\ ~HasRecord(db, p)
        /\ db.content # {}

\* ------------------------------------------------------------ C3
\* C3 (as claimed): every search returns exactly the rows of the committed store
\* (for each path, the row set before or after the replace in flight).
C3_SearchSeesCommittedRows ==
    [][result' # result => result'.rows = SearchRows(db, result'.q)]_vars

\* C3 (amended): every search, also one issued while a transaction is in flight,
\* returns for each path exactly its committed row set, never rows of the open
\* transaction, unless the query raises a store error, and then it returns
\* no row at all.
C3_SearchSeesCommittedOrNothing ==
    [][result' # result =>
          \/ result'.rows = <<>>
          \/ \A p \in Paths :
                SelectSeq(result'.rows, LAMBDA r : r[1] = p)
                  = SelectSeq(SearchRows(db, result'.q), LAMBDA r : r[1] = p)]_vars

\* a search answered while a transaction holding other rows is in flight
C3_Witness ==
    \E w \in Workers :
        /\ InTransaction(w)
        /\ result.rows # <<>>
        /\ result.rows = SearchRows(db, result.q)
        /\ SearchRows(thr[w].tx, result.q) # result.rows

\* ------------------------------------------------------------ C4
Unmodified == \A p \in Paths : fs[p].mtime = 1

AnyQuery == {<<>>, <<"a">>, <<"A">>, <<"_">>, <<"%">>, <<"1">>}

\* C5 (as claimed): search(q) returns a stored entry exactly when q is a
\* contiguous substring of its content.
C5_SearchIffSubstring ==
    \A q \in AnyQuery : \A c \in db.content :
        (c \in Matches(db, q)) <=> IsSubstring(q, c.content)

\* ------------------------------------------------------------ C6
\* the FileRecord of p was written by the run of thread w, and p's rows are
\* the entries of one extraction of the version that run read
IndexedBy(w, p) ==
    /\ p \in thr[w].committed
    /\ \E f \in FileRows(db, p) :
          /\ f.last_indexed = AdaptDatetime(thr[w].now)
          /\ PathRows(db, p) = ExtractionRows(p, f.last_modified.v)

LastReportIsCompletion(w) ==
    /\ thr[w].reports # <<>>
    /\ thr[w].reports[Len(thr[w].reports)] = [pct |-> 100, label |-> 0]

\* C6: a run in which exactly one candidate fails, in index_file (its workbook
\* cannot be loaded or its transaction fails), and no other candidate raises,
\* commits every other candidate wherever the failing one falls in the
\* order, visits every candidate, and ends with the 100% report.
C6_PartialFailureTolerance ==
    \A w \in Workers :
        (thr[w].pc = "done" /\ Cardinality(thr[w].fileErrs) = 1 /\ thr[w].loopErrs = {})
        => /\ \A p \in Range(thr[w].cands) \ thr[w].fileErrs : IndexedBy(w, p)
           /\ thr[w].selected = Range(thr[w].cands)
           /\ LastReportIsCompletion(w)

\* the first candidate failed and a later one was committed
C6_Witness ==
    \E w \in Workers :
        /\ thr[w].pc = "done"
        /\ Len(thr[w].cands) >= 2
        /\ thr[w].fileErrs = {thr[w].cands[1]}
        /\ thr[w].loopErrs = {}
        /\ thr[w].cands[Len(thr[w].cands)] \in thr[w].committed

\* ------------------------------------------------------------ C7
\* the lines the run of thread w has appended to the error log
RunLines(w) == SubSeq(errorLog, thr[w].logMark + 1, Len(errorLog))
LinesNaming(w, p) == Len(SelectSeq(RunLines(w), LAMBDA x : x = p))

\* C7 (as claimed): at the end of a run, each candidate whose processing raised
\* at any stage has exactly one line in the log, and the others have none.
C7_OneLinePerFailedCandidate ==
    \A w \in Workers : thr[w].pc = "done" =>
        \A p \in Range(thr[w].cands) :
            LinesNaming(w, p) = IF p \in thr[w].loopErrs \cup thr[w].fileErrs THEN 1 ELSE 0

LogAccounting ==
    \A w \in Workers : Running(w) \/ thr[w].pc = "done" =>
        \A p \in Range(thr[w].cands) :
            LinesNaming(w, p) = IF p \in thr[w].fileErrs THEN 1 ELSE 0

\* C7 (amended): within a run each candidate whose index_file call raised (the
\* workbook could not be loaded, or the transaction failed) has exactly one
\* line, and every other candidate, also one whose mtime read or change
\* detection raised, has none; the log only ever grows at its end.
C7_OneLinePerIndexFileFailure ==
    [][IsPrefix(errorLog, errorLog') /\ LogAccounting']_vars

\* a run with one candidate failed in index_file and one failed in the loop
C7_Witness ==
    \E w \in Workers :
        /\ thr[w].pc = "done"
        /\ thr[w].fileErrs # {}
        /\ thr[w].loopErrs # {}
        /\ Len(RunLines(w)) = Cardinality(thr[w].fileErrs)

\* ------------------------------------------------------------ C8
\* C8: a run's candidates are files that are in the folder when it scans, and
\* a step changes the FileRecord or the rows of a path only by committing
\* the re-index of that same path; so the rows of a file that has left the
\* folder stay as they are, and search keeps returning them.
C8_DeletionRetention ==
    [][/\ \A w \in Workers : thr'[w].cands # thr[w].cands =>
             \A p \in Range(thr'[w].cands) : fs[p].onDisk
       /\ db' # db =>
             \A p \in Paths :
                (FileRows(db', p) # FileRows(db, p) \/ PathRows(db', p) # PathRows(db, p))
                => \E w \in Workers : thr[w].pc = "commit" /\ Cur(w) = p]_vars

\* a run has committed another path after an indexed file left the folder
C8_Witness ==
    \E w \in Workers : \E p \in Paths :
        /\ thr[w].pc = "done"
        /\ ~fs[p].onDisk
        /\ p \notin Range(thr[w].cands)
        /\ PathRows(db, p) # <<>>
        /\ thr[w].committed # {}

\* ------------------------------------------------------------ C9
\* what needs_update is claimed to return for path p at modification time m
ClaimedNeed(d, p, m) ==
    IF \/ ~HasRecord(d, p)
       \/ \E f \in FileRows(d, p) : f.last_modified.v < m
    THEN "True" ELSE "False"

\* C9 (as claimed): needs_update returns true exactly when there is no
\* FileRecord or the stored last_modified is older, and false otherwise,
\* without raising.
C9_ChangeDetection ==
    [][\A w \in Workers :
          (thr[w].pc = "check" /\ thr'[w] # thr[w] /\ fs[Cur(w)].onDisk)
          => thr'[w].need = ClaimedNeed(db, Cur(w), fs[Cur(w)].mtime)]_vars

\* ------------------------------------------------------------ C10
Position(seq, x) == CHOOSE k \in 1..Len(seq) : seq[k] = x

\* the reports made for candidates (all but the completion report)
CandidateReports(w) ==
    SelectSeq(thr[w].reports, LAMBDA r : r.label # 0)

CompletionReport == [pct |-> 100, label |-> 0]

CompletionReports(w) ==
    Len(SelectSeq(thr[w].reports, LAMBDA r : r = CompletionReport))

\* C11: every run that has been started ends (its thread rests at "done"); the completion
\* report is made exactly once, as the last report of the run and not before
\* its end; a run whose scan finds no candidate does nothing but make that
\* report, and leaves the store as it is.
C11_Completion ==
    /\ ~NoRunActive ~> NoRunActive
    /\ [](\A w \in Workers :
            /\ thr[w].pc = "done" =>
                  LastReportIsCompletion(w) /\ CompletionReports(w) = 1
            /\ Running(w) => CompletionReports(w) = 0)
    /\ [][\A w \in Workers :
            (Running(w) /\ thr[w].cands = <<>> /\ thr'[w] # thr[w])
            => /\ db' = db
               /\ thr'[w].pc = "done"
               /\ thr'[w].reports = <<CompletionReport>>]_vars

\* a run over a folder without candidates has ended while the store held rows
C11_Witness ==
    \E w \in Workers :
        /\ thr[w].pc = "done"
        /\ thr[w].cands = <<>>
        /\ thr[w].reports = <<CompletionReport>>
        /\ db.content # {}

\* ------------------------------------------------------------ C12
Executing(w) == thr[w].pc \notin {"idle", "done", "killed"}

\* C12 (as claimed): at most one indexing run is executing at any time.
C12_SingleFlight ==
    Cardinality({w \in Workers : Executing(w)}) <= 1

\* ------------------------------------------------------------ C13
\* C13: in every committed store state, also with re-indexing of one path by
\* overlapping runs and with failed transactions, the files table holds at
\* most one FileRecord per file path.
C13_OneFileRecordPerPath ==
    \A p \in Paths : Cardinality(FileRows(db, p)) <= 1

\* two overlapping runs have both committed the same path
C13_Witness ==
    \E p \in Paths :
        /\ \A w \in Workers : p \in thr[w].committed
        /\ Cardinality(FileRows(db, p)) = 1

\* ------------------------------------------------------------ C18
NoOrphans(d) == \A c \in d.content : \E f \in d.files : f.id = c.file_id

\* C18 (as claimed): every content_index row belongs to a FileRecord that is
\* in the files table, and the commit of a re-index of a path leaves no row
\* that its previous FileRecord owned.
C18_NoOrphanedEntries ==
    [][/\ NoOrphans(db')
       /\ \A w \in Workers :
             (thr[w].pc = "commit" /\ db' # db) =>
                \A f \in FileRows(db, Cur(w)) : \A c \in db.content :
                   c.file_id = f.id => c \notin db'.content]_vars

\* ------------------------------------------------------------ C19
\* C19: every row that search returns for a path is an entry of an extraction
\* of the document at that path, whatever ids deletes have freed and inserts
\* have been given.
C19_NoCrossFileAttribution ==
    \A c \in Matches(db, <<>>) :
        LET row == ResultRow(db, c)
        IN \E m \in 1..MaxTime : row \in Range(ExtractionRows(row[1], m))

\* a path was re-indexed, its earlier rows were left without a FileRecord,
\* and search returns rows
C19_Witness ==
    /\ ~NoOrphans(db)
    /\ \E p \in Paths : \A w \in Workers : p \in thr[w].committed
    /\ SearchRows(db, <<>>) # <<>>

\* ------------------------------------------------------------ C14
\* C14 (as claimed): when an indexing run or a search call has returned, the
\* connection it opened is closed.
C14_ScopedStoreHandles ==
    /\ searchConn # "open"
    /\ \A w \in Workers : thr[w].pc \in {"idle", "done", "aborted"} => thr[w].conn # "open"

\* ------------------------------------------------------------ C15
\* C15: a search whose connection or query raises a store error returns an
\* empty sequence, and no search call, failed or not, changes the files or
\* the content_index table.
C15_SearchErrorGivesNoRows ==
    [][result' # result =>
          /\ db' = db
          /\ result'.raised => result'.rows = <<>>]_vars

\* a search has failed while the store held rows that match its query
C15_Witness ==
    /\ result.raised
    /\ result.rows = <<>>
    /\ SearchRows(db, result.q) # <<>>

\* ------------------------------------------------------------ C16
\* the run of thread t was started and could not connect to the store
OpenFailedRun(t) == t.now # Datetime(0) /\ t.conn = "none"

\* C16: a run whose store cannot be opened is aborted: it has checked, loaded
\* and committed no candidate and made no report, the start changes neither
\* the store nor the log, and the thread takes no further step of that run.
C16_StoreOpenFailureAborts ==
    [][\A w \in Workers :
          /\ OpenFailedRun(thr'[w]) =>
                /\ thr'[w].pc = "aborted"
                /\ thr'[w].reports = <<>>
                /\ thr'[w].selected \cup thr'[w].opened \cup thr'[w].committed = {}
                /\ thr'[w].loopErrs \cup thr'[w].fileErrs = {}
                /\ thr'[w].i = 0
                /\ thr'[w] # thr[w] => db' = db /\ errorLog' = errorLog
          /\ (thr[w].pc = "aborted" /\ thr'[w] # thr[w]) =>
                thr'[w].now # thr[w].now]_vars

\* a run over a folder with candidates was aborted after an earlier run had
\* filled the store
C16_Witness ==
    \E w \in Workers :
        /\ thr[w].pc = "aborted"
        /\ thr[w].cands # <<>>
        /\ db.files # {}

\* ------------------------------------------------------------ C17
\* the entries of the sheets of the document at p (as it was at mtime m) whose
\* reading does not fail, each such sheet in full
RECURSIVE IntactSheetRowsFrom(_, _, _)
IntactSheetRowsFrom(p, wb, s) ==
    IF s > Len(wb) THEN <<>>
    ELSE LET v == IF CellsRead(fs[p].health, s, wb[s]) = Len(wb[s].cells)
                  THEN SheetValues(0, wb[s], Len(wb[s].cells))
                  ELSE <<>>
         IN [k \in 1..Len(v) |-> <<p, v[k][2], v[k][3], v[k][4]>>]
            \o IntactSheetRowsFrom(p, wb, s + 1)

\* C17 (as claimed): the committed rows of a file are exactly the complete
\* entries of its sheets that were read without failure; a sheet whose
\* reading failed contributes no row.
C17_FailedSheetContributesNothing ==
    \A p \in Paths : \A f \in FileRows(db, p) :
        PathRows(db, p) = IntactSheetRowsFrom(p, Workbook(p, f.last_modified.v), 1)

\* ------------------------------------------------------------ C20
\* the paths named by the lines that were in the error log when the run of
\* thread w started
FailedBefore(w) == Range(SubSeq(errorLog, 1, thr[w].logMark))

\* C20: a failed index attempt leaves the FileRecord of its path as it was
\* (absent if the path was never indexed); a candidate that has failed before
\* and has no FileRecord yet is selected again by change detection in every
\* later run that reads its mtime; and a FileRecord comes into being only
\* by the commit of an index attempt for its path.
C20_RetryAfterFailure ==
    [][/\ \A w \in Workers :
             thr'[w].fileErrs # thr[w].fileErrs =>
                FileRows(db', Cur(w)) = FileRows(db, Cur(w))
       /\ \A w \in Workers :
             (/\ thr[w].pc = "check" /\ thr'[w] # thr[w]
              /\ Cur(w) \in FailedBefore(w)
              /\ ~HasRecord(db, Cur(w))
              /\ fs[Cur(w)].onDisk)
             => Cur(w) \in thr'[w].selected
       /\ db' # db =>
             \A p \in Paths :
                (~HasRecord(db, p) /\ HasRecord(db', p))
                => \E w \in Workers : /\ thr[w].pc = "commit" /\ Cur(w) = p
                                      /\ p \in thr'[w].committed]_vars

\* a later run has selected and committed a candidate whose attempt in an
\* earlier run failed
C20_Witness ==
    \E w \in Workers : \E p \in FailedBefore(w) :
        /\ p \in thr[w].selected
        /\ p \in thr[w].committed
====
